---------------------------- MODULE Spec2Model ----------------------------
(***************************************************************************)
(* Rustypipe: the pipeline validator (src/src/pipeline/parser.rs), the     *)
(* command interpolator (src/src/util.rs), the DAG executor with its task  *)
(* runners (src/src/pipeline/executor.rs) and the four execution backends  *)
(* (src/src/backends.rs).                                                  *)
(*                                                                         *)
(* Strings are sequences of one-character strings, so that str::replace,   *)
(* str::trim and the regex sweep act on characters as the code does.       *)
(* The specifications share the variables:                                 *)
(*   Spec          one run of run_pipeline on a validated pipeline         *)
(*   SpecFair      Spec under the scheduling the runtime guarantees        *)
(*   SpecBackend   Backend::run of each backend on a bounded child         *)
(*   SpecInterp    interpolate_command on bounded inputs                   *)
(*   SpecValidate  validate_pipeline on bounded pipelines                  *)
(***************************************************************************)
EXTENDS Integers, Sequences, FiniteSets, TLC

VARIABLES
    \* ---- run_pipeline (executor.rs) ----
    pipeline,           \* the loaded, validated Pipeline
    current_indegree,   \* executor.rs:76
    running,            \* executor.rs:61, names of the futures in FuturesUnordered
    rpc,                \* position of each task's runner future
    attempt,            \* executor.rs:210, per runner
    run_result,         \* executor.rs:213, what the last backend call gave
    cmd,                \* executor.rs:208, per runner
    snapshot,           \* executor.rs:206 outputs_snapshot, per runner
    permits,            \* free permits of sem, executor.rs:54
    outputs,            \* executor.rs:47
    ordered_results,    \* executor.rs:77
    artifacts,          \* files written under run_dir
    dpc,                \* position of the driver loop
    res,                \* the completion the driver holds (executor.rs:91)
    rc,                 \* what run_pipeline returned
    shutdown,           \* a permit stored in shutdown_notify
    dispatched,         \* number of spawn_task_future calls per task
    returned,           \* the value each runner future resolved to
    observed,           \* the tasks running.next() yielded, in order (executor.rs:91)
    \* ---- interpolate_command (util.rs) ----
    itemplate, ioutputs, ivars, iresult,
    \* ---- validate_pipeline (parser.rs) ----
    vpipeline, vresult,
    \* ---- Backend::run (backends.rs) ----
    bbackend,           \* which implementation of Backend runs
    btimeout,           \* timeout_secs: {} for None, {n} for Some(n)
    bcanon,             \* whether cwd.canonicalize() succeeds
    bchild,             \* how the spawned process behaves
    bpc,                \* position in run
    bevents,            \* what run did to the child after the deadline
    bresult             \* what run returned

execVars == <<pipeline, current_indegree, running, rpc, attempt, run_result,
              cmd, snapshot,
              permits, outputs, ordered_results, artifacts, dpc, res, rc,
              shutdown, dispatched, returned, observed>>
interpVars == <<itemplate, ioutputs, ivars, iresult>>
validVars == <<vpipeline, vresult>>
backendVars == <<bbackend, btimeout, bcanon, bchild, bpc, bevents, bresult>>
vars == <<execVars, interpVars, validVars, backendVars>>

(***************************************************************************)
(* Bounds of the model.                                                    *)
(***************************************************************************)
\* validate_pipeline is applied to every pipeline of at most MaxTasks tasks.
MaxTasks == 3
\* interpolate_command is applied to templates of at most MaxPieces pieces.
MaxPieces == 3

(***************************************************************************)
(* Generic helpers.                                                        *)
(***************************************************************************)
Range(s) == {s[i] : i \in 1..Len(s)}

RECURSIVE Flatten(_)
Flatten(ss) == IF ss = <<>> THEN <<>> ELSE Head(ss) \o Flatten(Tail(ss))

\* All sequences over S of length at most n.
SeqsUpTo(S, n) == UNION {[1..k -> S] : k \in 0..n}

\* All orders in which the keys of a HashMap can be iterated.
Orders(S) == {o \in [1..Cardinality(S) -> S] : Range(o) = S}

(***************************************************************************)
(* Strings (src/src/util.rs).                                              *)
(***************************************************************************)
\* A task or variable name as the characters format! writes; the model's
\* names are one character long.
Chars(name) == <<name>>

LBRACES == <<"{", "{">>
RBRACES == <<"}", "}">>
DOT_OUTPUT == <<".", "o", "u", "t", "p", "u", "t">>
VARS_DOT == <<"v", "a", "r", "s", ".">>

\* format!("{{{{vars.{}}}}}", k) and format!("{{{{vars.{} }}}}", k)
var_p1(k) == LBRACES \o VARS_DOT \o Chars(k) \o RBRACES
var_p2(k) == LBRACES \o VARS_DOT \o Chars(k) \o <<" ">> \o RBRACES
\* format!("{{{{{}.output}}}}", task) and format!("{{{{{}.output }}}}", task)
out_p1(task) == LBRACES \o Chars(task) \o DOT_OUTPUT \o RBRACES
out_p2(task) == LBRACES \o Chars(task) \o DOT_OUTPUT \o <<" ">> \o RBRACES

\* str::replace: every non-overlapping match of pat, left to right (pat is
\* never empty here).
RECURSIVE replace(_, _, _)
replace(s, pat, to) ==
    IF Len(s) < Len(pat) THEN s
    ELSE IF SubSeq(s, 1, Len(pat)) = pat
         THEN to \o replace(SubSeq(s, Len(pat) + 1, Len(s)), pat, to)
         ELSE <<Head(s)>> \o replace(Tail(s), pat, to)

Whitespace == {" ", "\n", "\t", "\r"}

\* str::trim: leading and trailing whitespace removed.
RECURSIVE trim_start(_)
trim_start(s) ==
    IF s # <<>> /\ Head(s) \in Whitespace THEN trim_start(Tail(s)) ELSE s

RECURSIVE trim_end(_)
trim_end(s) ==
    IF s # <<>> /\ s[Len(s)] \in Whitespace
    THEN trim_end(SubSeq(s, 1, Len(s) - 1)) ELSE s

trim_leading_only(s) == trim_start(s)

trim(s) == trim_end(trim_start(s))

\* Where a match of \{\{.*?\}\} that starts at s[1] can end: the closing braces
\* at j, j+1, with no newline between ('.' does not match '\n').
sweep_ends(s) ==
    {j \in 3..(Len(s) - 1) :
        /\ s[j] = "}" /\ s[j + 1] = "}"
        /\ \A k \in 3..(j - 1) : s[k] # "\n"}

Least(S) == CHOOSE x \in S : \A y \in S : x <= y

\* Regex::new(r"\{\{.*?\}\}").replace_all(&s, ""): leftmost matches, each the
\* shortest from its start.
RECURSIVE regex_sweep(_)
regex_sweep(s) ==
    IF Len(s) < 4 THEN s
    ELSE IF s[1] = "{" /\ s[2] = "{" /\ sweep_ends(s) # {}
         THEN regex_sweep(SubSeq(s, Least(sweep_ends(s)) + 2, Len(s)))
         ELSE <<Head(s)>> \o regex_sweep(Tail(s))

\* The loop over vars (util.rs:14-19), in the iteration order `order`.
RECURSIVE replace_vars(_, _, _)
replace_vars(s, vmap, order) ==
    IF order = <<>> THEN s
    ELSE LET k == Head(order)
             s1 == replace(s, var_p1(k), vmap[k])
             s2 == replace(s1, var_p2(k), vmap[k])
         IN  replace_vars(s2, vmap, Tail(order))

\* The loop over outputs (util.rs:22-27), in the iteration order `order`.
RECURSIVE replace_outputs(_, _, _)
replace_outputs(s, omap, order) ==
    IF order = <<>> THEN s
    ELSE LET task == Head(order)
             s1 == replace(s, out_p1(task), trim(omap[task]))
             s2 == replace(s1, out_p2(task), trim(omap[task]))
         IN  replace_outputs(s2, omap, Tail(order))

\* interpolate_command; a HashMap is iterated in an arbitrary order, so the
\* two orders are arguments.
interpolate_command(template, omap, vmap, oorder, vorder) ==
    regex_sweep(replace_outputs(replace_vars(template, vmap, vorder), omap, oorder))

\* Whether s holds an opening {{ followed later by a closing }}.
HasBraces(s) ==
    \E i \in 1..Len(s), j \in 1..Len(s) :
        /\ i + 1 < j /\ j + 1 <= Len(s)
        /\ s[i] = "{" /\ s[i + 1] = "{" /\ s[j] = "}" /\ s[j + 1] = "}"

(***************************************************************************)
(* The validator (src/src/pipeline/parser.rs).                             *)
(***************************************************************************)
TaskNames(tasks) == {tasks[i].name : i \in 1..Len(tasks)}
DepNames(tasks) == UNION {Range(tasks[i].depends_on) : i \in 1..Len(tasks)}

\* adj.entry(dep).or_default().push(t.name) for every task, in order, and
\* every entry of its depends_on: a task pushed once per entry that names dep.
AdjOf(tasks, dep) ==
    Flatten([i \in 1..Len(tasks) |->
                [k \in 1..Len(SelectSeq(tasks[i].depends_on, LAMBDA x : x = dep))
                    |-> tasks[i].name]])

\* A key absent from the HashMap is a node without dependents.
build_adj(tasks) ==
    [n \in TaskNames(tasks) \cup DepNames(tasks) |-> AdjOf(tasks, n)]

\* names.insert(t.name) returns false for some task.
has_duplicate(tasks) ==
    \E i \in 1..Len(tasks), j \in 1..Len(tasks) :
        i < j /\ tasks[i].name = tasks[j].name

\* some depends_on entry is not in name_set.
has_unknown(tasks) == ~(DepNames(tasks) \subseteq TaskNames(tasks))

\* The three-colour depth-first search; visited: 0 unvisited (absent from the
\* map), 1 visiting, 2 done.  Returns the error flag and the map.
RECURSIVE dfs(_, _, _)
RECURSIVE dfs_each(_, _, _)
dfs(node, adj, visited) ==
    IF visited[node] = 1 THEN [err |-> TRUE, visited |-> visited]
    ELSE IF visited[node] = 2 THEN [err |-> FALSE, visited |-> visited]
    ELSE LET r == dfs_each(adj[node], adj, [visited EXCEPT ![node] = 1])
         IN  IF r.err THEN r
             ELSE [err |-> FALSE, visited |-> [r.visited EXCEPT ![node] = 2]]

\* for n in nei { dfs(n, adj, visited)?; }  and  for t in &p.tasks { dfs(..)?; }
dfs_each(nodes, adj, visited) ==
    IF nodes = <<>> THEN [err |-> FALSE, visited |-> visited]
    ELSE LET r == dfs(Head(nodes), adj, visited)
         IN  IF r.err THEN r ELSE dfs_each(Tail(nodes), adj, r.visited)

has_cycle(tasks) ==
    dfs_each([i \in 1..Len(tasks) |-> tasks[i].name], build_adj(tasks),
             [n \in TaskNames(tasks) |-> 0]).err

validate_without_cycle_check(p) ==
    IF has_duplicate(p.tasks) THEN "DuplicateName"
    ELSE IF has_unknown(p.tasks) THEN "UnknownDependency"
    ELSE "Ok"

validate_pipeline(p) ==
    IF has_duplicate(p.tasks) THEN "DuplicateName"
    ELSE IF has_unknown(p.tasks) THEN "UnknownDependency"
    ELSE IF has_cycle(p.tasks) THEN "CycleDetected"
    ELSE "Ok"

\* ---- the pipelines validate_pipeline is applied to ----
VNames == {"a", "b", "c"}
\* depends_on: empty, one name, or two names (distinct or the same one twice).
VDepLists ==
    SeqsUpTo(VNames, 1)
        \cup {<<"a", "b">>, <<"b", "c">>, <<"c", "a">>, <<"a", "a">>}
VTaskDefs == [name : VNames, depends_on : VDepLists]
VPipelines == [tasks : SeqsUpTo(VTaskDefs, MaxTasks)]

\* ---- what the validator is specified to decide ----
\* n depends on m, directly.
DependsOn(tasks, n, m) ==
    \E i \in 1..Len(tasks) : tasks[i].name = n /\ m \in Range(tasks[i].depends_on)

\* The names reachable from n along depends_on in one or more steps.
RECURSIVE ReachUpTo(_, _, _)
ReachUpTo(tasks, S, k) ==
    IF k = 0 THEN S
    ELSE ReachUpTo(tasks,
                   S \cup {m \in TaskNames(tasks) \cup DepNames(tasks) :
                              \E n \in S : DependsOn(tasks, n, m)},
                   k - 1)

TransDeps(tasks, n) ==
    ReachUpTo(tasks,
              {m \in TaskNames(tasks) \cup DepNames(tasks) : DependsOn(tasks, n, m)},
              Len(tasks))

UniqueNames(tasks) ==
    \A i \in 1..Len(tasks), j \in 1..Len(tasks) :
        tasks[i].name = tasks[j].name => i = j
DepsExist(tasks) ==
    \A i \in 1..Len(tasks) : \A d \in Range(tasks[i].depends_on) :
        \E j \in 1..Len(tasks) : tasks[j].name = d
Acyclic(tasks) == \A n \in TaskNames(tasks) : n \notin TransDeps(tasks, n)

(***************************************************************************)
(* The pipelines that are run.  A TaskDef keeps the fields the executor    *)
(* reads (name, depends_on, run, retries) and continue_on_fail; absent     *)
(* options hold their defaults.                                            *)
(***************************************************************************)
Lit(text) == [kind |-> "lit", task |-> "", text |-> text]
Tok(task) == [kind |-> "tok", task |-> task, text |-> out_p1(task)]
TokSp(task) == [kind |-> "tok", task |-> task, text |-> out_p2(task)]
Render(parts) == Flatten([i \in 1..Len(parts) |-> parts[i].text])

Task(name, deps, parts, retries, cof) ==
    [name |-> name, depends_on |-> deps, run |-> Render(parts),
     retries |-> retries, continue_on_fail |-> cof]

\* a -> b -> c, one permit.
ChainParts ==
    [a |-> <<Lit(<<"e">>)>>,
     b |-> <<Lit(<<"e", " ">>), Tok("a")>>,
     c |-> <<Tok("a"), Lit(<<" ">>), TokSp("b")>>]
Chain ==
    [name |-> "chain", concurrency |-> 1, stop_on_fail |-> FALSE,
     tasks |-> <<Task("a", <<>>, ChainParts.a, 1, TRUE),
                 Task("b", <<"a">>, ChainParts.b, 0, FALSE),
                 Task("c", <<"b">>, ChainParts.c, 0, FALSE)>>]

\* a -> {b, c} -> d, two permits.
DiamondParts ==
    [a |-> <<Lit(<<"e">>)>>,
     b |-> <<Tok("a")>>,
     c |-> <<Lit(<<"e">>)>>,
     d |-> <<Tok("b"), Lit(<<"-">>), Tok("c")>>]
Diamond ==
    [name |-> "diamond", concurrency |-> 2, stop_on_fail |-> FALSE,
     tasks |-> <<Task("a", <<>>, DiamondParts.a, 0, FALSE),
                 Task("b", <<"a">>, DiamondParts.b, 0, TRUE),
                 Task("c", <<"a">>, DiamondParts.c, 0, FALSE),
                 Task("d", <<"b", "c">>, DiamondParts.d, 0, FALSE)>>]

\* two roots for one permit, b naming its dependency twice, and c using the
\* output of a, which it does not depend on.
FanParts ==
    [a |-> <<Lit(<<"e">>)>>,
     b |-> <<Lit(<<"e", " ">>), TokSp("a")>>,
     c |-> <<Lit(<<"e", " ">>), Tok("a")>>]
Fan ==
    [name |-> "fan", concurrency |-> 1, stop_on_fail |-> FALSE,
     tasks |-> <<Task("a", <<>>, FanParts.a, 0, FALSE),
                 Task("b", <<"a", "a">>, FanParts.b, 0, FALSE),
                 Task("c", <<>>, FanParts.c, 0, FALSE)>>]

\* one task and no permit: `concurrency: 0` parses (Option<usize>).
StallParts == [a |-> <<Lit(<<"e">>)>>]
Stall ==
    [name |-> "stall", concurrency |-> 0, stop_on_fail |-> FALSE,
     tasks |-> <<Task("a", <<>>, StallParts.a, 0, FALSE)>>]

Catalog == {Chain, Diamond, Fan, Stall}
Pipelines == {[p EXCEPT !.stop_on_fail = b] : p \in Catalog, b \in BOOLEAN}

PartsOf(p, n) ==
    IF p.name = "chain" THEN ChainParts[n]
    ELSE IF p.name = "diamond" THEN DiamondParts[n]
    ELSE IF p.name = "stall" THEN StallParts[n]
    ELSE FanParts[n]

\* What a child process can print and return.
Stdouts == {<<"h", "\n">>, <<" ", "{", "{", "x", "}", "}">>}
ExitCodes == {0, 1}

(***************************************************************************)
(* Backend::run of the four backends (src/src/backends.rs).  Each builds   *)
(* a command line (sh, docker, ssh, kubectl) and then either calls         *)
(* output() or, with a timeout, spawns the process and waits for it under  *)
(* tokio::time::timeout.                                                   *)
(***************************************************************************)
\* The longest a child runs, in seconds.
MaxTime == 3

Backends == {"Local", "Docker", "SSH", "Kubernetes"}
None == {}
Some(n) == {n}
Timeouts == {None} \cup {Some(n) : n \in 1..(MaxTime - 1)}
secs_of(timeout) == CHOOSE n \in timeout : TRUE
\* The spawned process: whether spawn() and the wait succeed, the status it
\* exits with and the time it takes.
Children ==
    [spawn_ok : BOOLEAN, wait_ok : BOOLEAN, code : {0, 1, 2}, time : 1..MaxTime]

BNone == [kind |-> "none", code |-> 0, error |-> ""]
BErr(e) == [kind |-> "err", code |-> 0, error |-> e]
\* Ok((out, err, output.status)): whatever the status is.
status_is_error(code) ==
    IF code = 0 THEN [kind |-> "ok", code |-> code, error |-> ""]
    ELSE BErr("failed")

BOk(code) == [kind |-> "ok", code |-> code, error |-> ""]

\* tokio::time::timeout polls the wait before the timer.
elapsed(timeout, time) == timeout # None /\ time > secs_of(timeout)

BackendUnused ==
    /\ bbackend = "Local" /\ btimeout = None /\ bcanon = TRUE
    /\ bchild = [spawn_ok |-> TRUE, wait_ok |-> TRUE, code |-> 0, time |-> 1]
    /\ bpc = "unused" /\ bevents = <<>> /\ bresult = BNone

(***************************************************************************)
(* run_pipeline and spawn_task_future (src/src/pipeline/executor.rs).      *)
(***************************************************************************)
Names == TaskNames(pipeline.tasks)

\* tasks_map.get(&task_name)
task_def(n) == CHOOSE t \in Range(pipeline.tasks) : t.name = n

\* One increment per entry of depends_on of every task named n.
indegree_distinct(tasks, n) ==
    Cardinality(Range(Flatten([i \in 1..Len(tasks) |->
        IF tasks[i].name = n THEN tasks[i].depends_on ELSE <<>>])))

indegree_of(tasks, n) ==
    Len(Flatten([i \in 1..Len(tasks) |->
        IF tasks[i].name = n THEN tasks[i].depends_on ELSE <<>>]))

build_indegree(tasks) == [n \in TaskNames(tasks) |-> indegree_of(tasks, n)]

adj == build_adj(pipeline.tasks)

\* filter_map(|(n,&d)| if d==0 { Some(n) } else { None })
is_ready_at_most_one(d) == d <= 1

is_ready(d) == d = 0

initial_ready(indeg) == {n \in DOMAIN indeg : is_ready(indeg[n])}

Count(seq, x) == Len(SelectSeq(seq, LAMBDA y : y = x))

saturating_sub(a, b) == IF a >= b THEN a - b ELSE 0

\* The loop over the dependents of a completed task: each is decremented and,
\* at zero, spawned.  Returns the indegrees and the spawns, in order.
release_unconditional(indeg, dependents) ==
    [indegree |-> [n \in DOMAIN indeg |->
                     saturating_sub(indeg[n], Count(dependents, n))],
     spawned |-> dependents]

RECURSIVE release(_, _)
release(indeg, dependents) ==
    IF dependents = <<>> THEN [indegree |-> indeg, spawned |-> <<>>]
    ELSE LET dep == Head(dependents)
             val == saturating_sub(indeg[dep], 1)
             r == release([indeg EXCEPT ![dep] = val], Tail(dependents))
         IN  [indegree |-> r.indegree,
              spawned |-> (IF is_ready(val) THEN <<dep>> ELSE <<>>) \o r.spawned]

NoRes == [kind |-> "none", task |-> "", stdout |-> <<>>, code |-> 0]
OkRes(t, out, code) == [kind |-> "ok", task |-> t, stdout |-> out, code |-> code]
ErrRes(t) == [kind |-> "err", task |-> t, stdout |-> <<>>, code |-> 0]

\* Put on a function: m.insert(k, v)
Insert(m, k, v) == [x \in DOMAIN m \cup {k} |-> IF x = k THEN v ELSE m[x]]
EmptyMap == [x \in {} |-> <<>>]

\* The variables of an operation that a specification does not exercise.
NoResult == [done |-> FALSE, value |-> <<>>]
InterpUnused ==
    /\ itemplate = <<>> /\ ioutputs = EmptyMap /\ ivars = EmptyMap
    /\ iresult = NoResult
ValidUnused == vpipeline = [tasks |-> <<>>] /\ vresult = "none"
ExecUnused ==
    /\ pipeline = Chain
    /\ current_indegree = build_indegree(Chain.tasks)
    /\ running = {} /\ permits = 0 /\ outputs = EmptyMap
    /\ rpc = [n \in TaskNames(Chain.tasks) |-> "none"]
    /\ attempt = [n \in TaskNames(Chain.tasks) |-> 0]
    /\ run_result = [n \in TaskNames(Chain.tasks) |-> "none"]
    /\ cmd = [n \in TaskNames(Chain.tasks) |-> <<>>]
    /\ snapshot = [n \in TaskNames(Chain.tasks) |-> EmptyMap]
    /\ dispatched = [n \in TaskNames(Chain.tasks) |-> 0]
    /\ returned = [n \in TaskNames(Chain.tasks) |-> NoRes]
    /\ observed = <<>>
    /\ ordered_results = <<>> /\ artifacts = {}
    /\ dpc = "unused" /\ res = NoRes /\ rc = "none" /\ shutdown = FALSE

\* ---- the state after the initial batch is spawned (executor.rs:27-88) ----
Init ==
    /\ pipeline \in {p \in Pipelines : validate_pipeline(p) = "Ok"}
    /\ current_indegree = build_indegree(pipeline.tasks)
    /\ running = initial_ready(build_indegree(pipeline.tasks))
    /\ rpc = [n \in Names |->
                IF n \in initial_ready(build_indegree(pipeline.tasks))
                THEN "acquire" ELSE "none"]
    /\ dispatched = [n \in Names |->
                IF n \in initial_ready(build_indegree(pipeline.tasks))
                THEN 1 ELSE 0]
    /\ returned = [n \in Names |-> NoRes]
    /\ observed = <<>>
    /\ attempt = [n \in Names |-> 0]
    /\ run_result = [n \in Names |-> "none"]
    /\ cmd = [n \in Names |-> <<>>]
    /\ snapshot = [n \in Names |-> EmptyMap]
    /\ permits = pipeline.concurrency
    /\ outputs = EmptyMap
    /\ ordered_results = <<>>
    /\ artifacts = {}
    /\ dpc = "poll"
    /\ res = NoRes
    /\ rc = "none"
    /\ shutdown = FALSE
    /\ InterpUnused
    /\ ValidUnused
    /\ BackendUnused

\* ---- a task runner, polled while the driver awaits running.next() ----
\* sem.acquire() completes only when a permit is free.
acquires_without_permit(free) == TRUE

acquires(free) == free > 0

\* let _permit = sem.acquire().await: the permit is taken and bound to a
\* name, so it is held until the future returns or is dropped.
permit_not_bound(free) == free

permit(free) == free - 1

\* executor.rs:216-218: a result is returned whatever its status.
retries_failed_status(code, att, retries) == code # 0 /\ att <= retries

retries_status(code, att, retries) == FALSE

\* executor.rs:220: if attempt <= retries
retries_error_once_less(att, retries) == att < retries

retries_error(att, retries) == att <= retries

\* executor.rs:194-213: the permit, the snapshots, the interpolated command and
\* the first backend call, all in one poll.
RunnerStart(t) ==
    /\ dpc = "poll"
    /\ t \in running
    /\ rpc[t] = "acquire"
    /\ acquires(permits)
    /\ permits' = permit(permits)
    /\ snapshot' = [snapshot EXCEPT ![t] = outputs]
    /\ \E oorder \in Orders(DOMAIN outputs) :
          cmd' = [cmd EXCEPT ![t] =
                    interpolate_command(task_def(t).run, outputs, EmptyMap,
                                        oorder, <<>>)]
    /\ attempt' = [attempt EXCEPT ![t] = 1]
    /\ rpc' = [rpc EXCEPT ![t] = "run"]
    /\ UNCHANGED <<pipeline, current_indegree, running, run_result, outputs,
                   ordered_results, artifacts, dpc, res, rc, shutdown,
                   dispatched, returned, observed,
                   interpVars, validVars, backendVars>>

\* The future of t resolves: it leaves the in-flight set, its permit is
\* released and running.next() yields its value to the driver.
Complete(t, r) ==
    /\ running' = running \ {t}
    /\ rpc' = [rpc EXCEPT ![t] = "returned"]
    /\ permits' = permits + 1
    /\ returned' = [returned EXCEPT ![t] = r]
    /\ res' = r
    /\ observed' = Append(observed, t)
    /\ dpc' = "got"

\* executor.rs:216-218: the backend returned (stdout, stderr, status).
RunnerResult(t) ==
    /\ dpc = "poll"
    /\ t \in running
    /\ rpc[t] = "run"
    /\ \E out \in Stdouts, code \in ExitCodes :
          IF retries_status(code, attempt[t], task_def(t).retries)
          THEN /\ attempt' = [attempt EXCEPT ![t] = @ + 1]
               /\ UNCHANGED <<running, rpc, permits, res, dpc, returned,
                              observed>>
          ELSE /\ Complete(t, OkRes(t, out, code))
               /\ UNCHANGED attempt
    /\ run_result' = [run_result EXCEPT ![t] = "ok"]
    /\ UNCHANGED <<pipeline, current_indegree, cmd, snapshot, outputs,
                   ordered_results, artifacts, rc, shutdown, dispatched,
                   interpVars, validVars, backendVars>>

\* executor.rs:219-226: the backend returned an error (spawn, wait, timeout).
RunnerError(t) ==
    /\ dpc = "poll"
    /\ t \in running
    /\ rpc[t] = "run"
    /\ IF retries_error(attempt[t], task_def(t).retries)
       THEN /\ attempt' = [attempt EXCEPT ![t] = @ + 1]
            /\ UNCHANGED <<running, rpc, permits, res, dpc, returned, observed>>
       ELSE /\ Complete(t, ErrRes(t))
            /\ UNCHANGED attempt
    /\ run_result' = [run_result EXCEPT ![t] = "err"]
    /\ UNCHANGED <<pipeline, current_indegree, cmd, snapshot, outputs,
                   ordered_results, artifacts, rc, shutdown, dispatched,
                   interpVars, validVars, backendVars>>

\* ---- the Ctrl+C task (executor.rs:83-87) ----
Signal ==
    /\ ~shutdown
    /\ dpc # "done"
    /\ shutdown' = TRUE
    /\ UNCHANGED <<pipeline, current_indegree, running, rpc, attempt,
                   run_result, cmd, snapshot, permits, outputs, ordered_results, artifacts, dpc,
                   res, rc, dispatched, returned, observed,
                   interpVars, validVars, backendVars>>

\* ---- the driver ----
\* run_pipeline returns: `running` is dropped with the futures still in it,
\* and each of them that holds a permit gives it back.
Return(code) ==
    /\ dpc' = "done"
    /\ rc' = code
    /\ running' = {}
    /\ rpc' = [n \in Names |-> IF n \in running THEN "dropped" ELSE rpc[n]]
    /\ permits' = permits + Cardinality({n \in running : rpc[n] = "run"})

\* running.push(spawn_task_future(dep, ..)) for each entry of spawned.
Spawn(spawned) ==
    /\ running' = running \cup Range(spawned)
    /\ rpc' = [n \in Names |-> IF n \in Range(spawned) THEN "acquire" ELSE rpc[n]]
    /\ dispatched' = [n \in Names |-> dispatched[n] + Count(spawned, n)]

\* executor.rs:91: running.next() yields None.
DriverFinish ==
    /\ dpc = "poll"
    /\ running = {}
    /\ Return("Ok")
    /\ UNCHANGED <<pipeline, current_indegree, attempt, run_result, cmd,
                   snapshot, outputs,
                   ordered_results, artifacts, res, shutdown, dispatched,
                   returned, observed,
                   interpVars, validVars, backendVars>>

\* executor.rs:92-95: the shutdown check on the completion just yielded.
DriverCheck ==
    /\ dpc = "got"
    /\ IF shutdown
       THEN Return("Ok")
       ELSE /\ dpc' = "handle"
            /\ UNCHANGED <<rc, running, rpc, permits>>
    /\ UNCHANGED <<pipeline, current_indegree, attempt, run_result, cmd,
                   snapshot, outputs,
                   ordered_results, artifacts, res, shutdown, dispatched,
                   returned, observed,
                   interpVars, validVars, backendVars>>

\* fail-fast test of executor.rs:126
aborts_on_success(r) == r.code = 0 /\ pipeline.stop_on_fail

aborts(r) == r.code # 0 /\ pipeline.stop_on_fail

\* out_map.insert(task_name, stdout) of executor.rs:118-121
store_output_on_success(omap, r) ==
    IF r.code = 0 THEN Insert(omap, r.task, r.stdout) ELSE omap

store_output(omap, r) == Insert(omap, r.task, r.stdout)

\* ordered_results.push(..) of executor.rs:123
push_front(list, e) == <<e>> \o list

push(list, e) == Append(list, e)

\* write_artifact(..)? of executor.rs:107 and 115: a failed write returns.
write_artifact_err_ignored(io) == FALSE

write_artifact_err(io) == io # "written"

\* executor.rs:98-150: an Ok completion.  io says how far the two
\* write_artifact calls get.
HandleOk ==
    /\ dpc = "handle"
    /\ res.kind = "ok"
    /\ \E io \in {"written", "log_fails", "json_fails"} :
        /\ artifacts' = artifacts
              \cup (IF io # "log_fails" THEN {<<res.task, "log">>} ELSE {})
              \cup (IF io = "written" THEN {<<res.task, "json">>} ELSE {})
        /\ IF write_artifact_err(io)
           THEN /\ Return("IoError")
                /\ UNCHANGED <<outputs, ordered_results, current_indegree,
                               dispatched>>
           ELSE /\ outputs' = store_output(outputs, res)
                /\ ordered_results' = push(ordered_results,
                        [task |-> res.task, cmd |-> cmd[res.task],
                         stdout |-> res.stdout])
                /\ IF aborts(res)
                   THEN /\ Return("PipelineAborted")
                        /\ UNCHANGED <<current_indegree, dispatched>>
                   ELSE LET r == release(current_indegree, adj[res.task])
                        IN  /\ current_indegree' = r.indegree
                            /\ Spawn(r.spawned)
                            /\ dpc' = "poll"
                            /\ UNCHANGED <<rc, permits>>
    /\ UNCHANGED <<pipeline, attempt, run_result, cmd,
                   snapshot, res, shutdown,
                   returned, observed,
                   interpVars, validVars, backendVars>>

\* executor.rs:151-156: an Err completion.
HandleErr ==
    /\ dpc = "handle"
    /\ res.kind = "err"
    /\ IF pipeline.stop_on_fail
       THEN Return("PipelineAborted")
       ELSE /\ dpc' = "poll"
            /\ UNCHANGED <<rc, running, rpc, permits>>
    /\ UNCHANGED <<pipeline, current_indegree, attempt, run_result, cmd,
                   snapshot, outputs,
                   ordered_results, artifacts, res, shutdown, dispatched,
                   returned, observed,
                   interpVars, validVars, backendVars>>

Next ==
    \/ \E t \in Names : RunnerStart(t)
    \/ \E t \in Names : RunnerResult(t)
    \/ \E t \in Names : RunnerError(t)
    \/ Signal
    \/ DriverFinish
    \/ DriverCheck
    \/ HandleOk
    \/ HandleErr

Spec == Init /\ [][Next]_vars

\* Scheduling.  The runtime polls every runner that can make progress: the
\* semaphore hands a free permit to a waiting acquire, and every backend
\* invocation terminates, with a result or with an error; the driver runs
\* whenever running.next() has yielded.  Ctrl+C may never come.
TaskIds == {"a", "b", "c", "d"}
Fairness ==
    /\ \A t \in TaskIds : WF_vars(RunnerStart(t))
    /\ \A t \in TaskIds : WF_vars(RunnerResult(t) \/ RunnerError(t))
    /\ WF_vars(DriverCheck)
    /\ WF_vars(HandleOk)
    /\ WF_vars(HandleErr)
    /\ WF_vars(DriverFinish)
SpecFair == Spec /\ Fairness

(***************************************************************************)
(* interpolate_command on its own.                                         *)
(***************************************************************************)
IPieces ==
    {LBRACES, RBRACES, <<"x">>, <<"\n">>,
     out_p1("a"), out_p2("b"), var_p1("k"), var_p2("k")}
ITemplates == {Flatten(ps) : ps \in SeqsUpTo(IPieces, MaxPieces)}
IValues == {<<"h", "\n">>, <<"{", "{", "\n">>, out_p1("b")}
IOutputs == UNION {[D -> IValues] : D \in SUBSET {"a", "b"}}
IVars == UNION {[D -> IValues] : D \in SUBSET {"k"}}

InitInterp ==
    /\ itemplate \in ITemplates
    /\ ioutputs \in IOutputs
    /\ ivars \in IVars
    /\ iresult = NoResult
    /\ ExecUnused
    /\ ValidUnused
    /\ BackendUnused

Interpolate ==
    /\ ~iresult.done
    /\ \E oorder \in Orders(DOMAIN ioutputs), vorder \in Orders(DOMAIN ivars) :
          iresult' = [done |-> TRUE,
                      value |-> interpolate_command(itemplate, ioutputs, ivars,
                                                    oorder, vorder)]
    /\ UNCHANGED <<itemplate, ioutputs, ivars, execVars, validVars, backendVars>>

NextInterp == Interpolate

SpecInterp == InitInterp /\ [][NextInterp]_vars

(***************************************************************************)
(* validate_pipeline on its own.                                           *)
(***************************************************************************)
InitValidate ==
    /\ vpipeline \in VPipelines
    /\ vresult = "none"
    /\ ExecUnused
    /\ InterpUnused
    /\ BackendUnused

Validate ==
    /\ vresult = "none"
    /\ vresult' = validate_pipeline(vpipeline)
    /\ UNCHANGED <<vpipeline, execVars, interpVars, backendVars>>

NextValidate == Validate

SpecValidate == InitValidate /\ [][NextValidate]_vars

(***************************************************************************)
(* Backend::run on its own.                                                *)
(***************************************************************************)
InitBackend ==
    /\ bbackend \in Backends
    /\ btimeout \in Timeouts
    /\ bcanon \in (IF bbackend = "Docker" THEN BOOLEAN ELSE {TRUE})
    /\ bchild \in Children
    /\ bpc = "build"
    /\ bevents = <<>>
    /\ bresult = BNone
    /\ ExecUnused
    /\ InterpUnused
    /\ ValidUnused

BackendReturn(r) ==
    /\ bresult' = r
    /\ bpc' = "done"

\* The command line is built; only the Docker backend can fail here
\* (backends.rs:122-124, cwd.canonicalize()?).
BackendBuild ==
    /\ bpc = "build"
    /\ IF bbackend = "Docker" /\ ~bcanon
       THEN BackendReturn(BErr("canonicalize"))
       ELSE bpc' = (IF btimeout = None THEN "output" ELSE "spawn") /\ UNCHANGED bresult
    /\ UNCHANGED <<bbackend, btimeout, bcanon, bchild, bevents,
                   execVars, interpVars, validVars>>

\* No timeout: c.output().await.context(..)? and Ok((out, err, status)).
BackendOutput ==
    /\ bpc = "output"
    /\ IF bchild.spawn_ok /\ bchild.wait_ok
       THEN BackendReturn(BOk(bchild.code))
       ELSE BackendReturn(BErr("failed"))
    /\ UNCHANGED <<bbackend, btimeout, bcanon, bchild, bevents,
                   execVars, interpVars, validVars>>

\* With a timeout: c.stdout(piped).stderr(piped).spawn().context(..)?
BackendSpawn ==
    /\ bpc = "spawn"
    /\ IF bchild.spawn_ok
       THEN bpc' = "wait" /\ UNCHANGED bresult
       ELSE BackendReturn(BErr("spawn"))
    /\ UNCHANGED <<bbackend, btimeout, bcanon, bchild, bevents,
                   execVars, interpVars, validVars>>

\* match tokio::time::timeout(secs, child.wait_with_output()).await
BackendWait ==
    /\ bpc = "wait"
    /\ IF elapsed(btimeout, bchild.time)
       THEN bpc' = "kill" /\ UNCHANGED bresult
       ELSE IF bchild.wait_ok
            THEN BackendReturn(BOk(bchild.code))
            ELSE BackendReturn(BErr("wait"))
    /\ UNCHANGED <<bbackend, btimeout, bcanon, bchild, bevents,
                   execVars, interpVars, validVars>>

\* Err(_) => let _ = child.kill();
child_kill_omitted(events) == events

child_kill(events) == Append(events, "kill")

BackendKill ==
    /\ bpc = "kill"
    /\ bevents' = child_kill(bevents)
    /\ bpc' = "reap"
    /\ UNCHANGED <<bbackend, btimeout, bcanon, bchild, bresult,
                   execVars, interpVars, validVars>>

\* let _ = child.wait().await; and, but for Kubernetes, the timeout error.
BackendReap ==
    /\ bpc = "reap"
    /\ bevents' = Append(bevents, "wait")
    /\ IF bbackend = "Kubernetes"
       THEN bpc' = "cleanup" /\ UNCHANGED bresult
       ELSE BackendReturn(BErr("timeout"))
    /\ UNCHANGED <<bbackend, btimeout, bcanon, bchild,
                   execVars, interpVars, validVars>>

\* backends.rs:417-427: kubectl delete pod, its outcome ignored.
BackendCleanup ==
    /\ bpc = "cleanup"
    /\ \E deleted \in BOOLEAN :
          bevents' = Append(bevents, IF deleted THEN "delete" ELSE "delete_failed")
    /\ BackendReturn(BErr("timeout"))
    /\ UNCHANGED <<bbackend, btimeout, bcanon, bchild,
                   execVars, interpVars, validVars>>

NextBackend ==
    \/ BackendBuild
    \/ BackendOutput
    \/ BackendSpawn
    \/ BackendWait
    \/ BackendKill
    \/ BackendReap
    \/ BackendCleanup

SpecBackend == InitBackend /\ [][NextBackend]_vars

(***************************************************************************)
(* Properties of a run (Spec).                                             *)
(***************************************************************************)
\* The transitive dependency closure of every task of every pipeline run.
CatalogDeps ==
    [p \in Catalog |-> [n \in TaskNames(p.tasks) |-> TransDeps(p.tasks, n)]]
Deps(t) == CatalogDeps[[pipeline EXCEPT !.stop_on_fail = FALSE]][t]
Dependents(t) == {d \in Names : t \in Deps(d)}
\* The runner of t took its permit and its snapshots.
Started(t) == attempt[t] >= 1
Holders == {t \in running : rpc[t] = "run"}
\* The driver processed the completion of t up to the ordered results.
Processed(t) ==
    \E i \in 1..Len(ordered_results) : ordered_results[i].task = t
Failed(r) == r.kind = "err" \/ (r.kind = "ok" /\ r.code # 0)

\* C1: a task is dispatched only after the driver loop has processed the
\* completion of every task in its transitive dependency closure.
C1_DagOrdering ==
    \A t \in Names : dispatched[t] > 0 => \A d \in Deps(t) : Processed(d)

C1_Witness ==
    \E t \in Names :
        /\ dispatched[t] = 1
        /\ Cardinality(Deps(t)) >= 2
        /\ \A d \in Deps(t) : Processed(d)

\* C2 as stated: the in-flight set never holds more runners than the
\* configured concurrency.
C2_InFlightBound == Cardinality(running) <= pipeline.concurrency

\* C2 amended: the runners of the in-flight set that hold a permit are never
\* more than the configured concurrency.
C2_PermitHolderBound == Cardinality(Holders) <= pipeline.concurrency

C2_Witness ==
    /\ Cardinality(Holders) = pipeline.concurrency
    /\ Cardinality(running) > pipeline.concurrency

\* C3: spawn_task_future is called at most once for any task name, also for a
\* task that lists a dependency more than once.
C3_AtMostOnce == \A t \in Names : dispatched[t] <= 1

C3_Witness ==
    \E t \in Names :
        /\ Len(task_def(t).depends_on) > Cardinality(Range(task_def(t).depends_on))
        /\ dispatched[t] = 1
        /\ current_indegree[t] = 0

\* The completion the driver holds is one that C4 is about.
FailFastCase ==
    /\ dpc \in {"got", "handle"}
    /\ pipeline.stop_on_fail
    /\ Failed(res)
    /\ ~task_def(res.task).continue_on_fail

\* C4 as stated: with stop_on_fail, once the driver holds the completion of a
\* failed task whose continue_on_fail is not true, nothing more is dispatched
\* and the run ends with PipelineAborted.
C4_EndsAborted ==
    [][FailFastCase =>
          /\ dispatched' = dispatched
          /\ dpc' # "poll"
          /\ dpc' = "done" => rc' = "PipelineAborted"]_vars

\* C4 amended: nothing more is dispatched and the run ends at that completion:
\* with PipelineAborted, or with IoError when an artifact of the failed task
\* cannot be written, or normally when shutdown was requested before the
\* completion was checked.
C4_FailFast ==
    [][/\ FailFastCase =>
            /\ dispatched' = dispatched
            /\ dpc' # "poll"
            /\ dpc' = "done" =>
                  \/ rc' = "PipelineAborted"
                  \/ rc' = "IoError" /\ dpc = "handle" /\ res.kind = "ok"
                        /\ <<res.task, "json">> \notin artifacts'
                  \/ rc' = "Ok" /\ dpc = "got" /\ shutdown
       /\ dpc = "done" => dispatched' = dispatched /\ dpc' = "done"]_vars

C4_Witness ==
    /\ dpc = "done"
    /\ rc = "PipelineAborted"
    /\ Failed(res)
    /\ ~task_def(res.task).continue_on_fail
    /\ \E d \in Dependents(res.task) : dispatched[d] = 0

\* C5: the run aborts with PipelineAborted only on the failure of a task whose
\* continue_on_fail is not true.
C5_ContinueOnFail ==
    (dpc = "done" /\ rc = "PipelineAborted") =>
        ~task_def(res.task).continue_on_fail

\* C6 as stated: under stop_on_fail=false no transitive dependent of a failed
\* task (runner error or non-zero exit) is dispatched, and the indegree of no
\* direct dependent reaches zero.
C6_FailedNeverReleases ==
    ~pipeline.stop_on_fail =>
        \A t \in Names : Failed(returned[t]) =>
            /\ \A d \in Dependents(t) : dispatched[d] = 0
            /\ \A d \in Range(adj[t]) : current_indegree[d] > 0

\* C6 amended: under stop_on_fail=false a task whose runner returned an error
\* never releases its dependents; a non-zero exit status does release them.
C6_ErrorNeverReleases ==
    ~pipeline.stop_on_fail =>
        \A t \in Names : returned[t].kind = "err" =>
            /\ \A d \in Dependents(t) : dispatched[d] = 0
            /\ \A d \in Range(adj[t]) : current_indegree[d] > 0

C6_Witness ==
    /\ ~pipeline.stop_on_fail
    /\ dpc = "done"
    /\ \E t \in Names :
          /\ returned[t].kind = "err"
          /\ Dependents(t) # {}
          /\ \E u \in Names \ {t} : Processed(u) /\ Range(adj[u]) # {}

\* C7: the outputs snapshot of a runner holds the captured stdout of every
\* task it depends on.
C7_SnapshotHasUpstream ==
    \A d \in Names : Started(d) =>
        \A t \in Deps(d) :
            /\ t \in DOMAIN snapshot[d]
            /\ snapshot[d][t] = returned[t].stdout

C7_Witness ==
    \E d \in Names :
        /\ Started(d)
        /\ Cardinality(Deps(d)) >= 2
        /\ \E t \in Deps(d) : returned[t].code # 0

\* The characters of s from its first to its last non-whitespace one.
Trimmed(s) ==
    LET keep == {i \in 1..Len(s) : s[i] \notin Whitespace}
    IN  IF keep = {} THEN <<>>
        ELSE SubSeq(s, Least(keep), CHOOSE i \in keep : \A j \in keep : j <= i)

NoBraceIn(s) == \A i \in 1..Len(s) : s[i] \notin {"{", "}"}

\* What the token of t stands for in the command of d: the stdout of t when d
\* depends on t; for any other task, what the snapshot of d holds for it, if
\* anything.
TokenValue(d, t) ==
    IF t \in Deps(d) THEN returned[t].stdout
    ELSE IF t \in DOMAIN snapshot[d] THEN snapshot[d][t]
    ELSE <<>>

\* The template of d with each {{T.output}} replaced by T's trimmed stdout.
Substituted(d) ==
    LET parts == PartsOf(pipeline, d)
    IN  Flatten([i \in 1..Len(parts) |->
                    IF parts[i].kind = "tok"
                    THEN Trimmed(TokenValue(d, parts[i].task))
                    ELSE parts[i].text])

TokensOf(d) ==
    LET parts == PartsOf(pipeline, d)
    IN  {parts[i].task : i \in {j \in 1..Len(parts) : parts[j].kind = "tok"}}

\* C8 as stated: the command passed to the backend has each {{T.output}} of
\* a dependency replaced by exactly T's trimmed stdout, whatever T printed.
C8_ExactSubstitution ==
    \A d \in Names : Started(d) => cmd[d] = Substituted(d)

\* C8 amended: it has, when no stdout substituted into the command contains
\* a brace once trimmed (the text of these templates outside their tokens
\* contains none).
C8_SubstitutionWithoutBraces ==
    \A d \in Names :
        (Started(d) /\ \A t \in TokensOf(d) :
                          NoBraceIn(Trimmed(TokenValue(d, t))))
            => cmd[d] = Substituted(d)

C8_Witness ==
    \E d \in Names :
        /\ Started(d)
        /\ Cardinality(TokensOf(d)) >= 2
        /\ TokensOf(d) \subseteq Deps(d)
        /\ \A t \in TokensOf(d) :
              /\ returned[t].stdout # Trimmed(returned[t].stdout)
              /\ NoBraceIn(returned[t].stdout)
        /\ cmd[d] = Substituted(d)

(***************************************************************************)
(* Properties of interpolate_command (SpecInterp).                         *)
(***************************************************************************)
\* C9: the string interpolate_command returns holds no {{ followed later by
\* }}, whatever the template and the values contain.
C9_NoBracesRemain == iresult.done => ~HasBraces(iresult.value)

(***************************************************************************)
(* Properties of validate_pipeline (SpecValidate).                         *)
(***************************************************************************)
\* C10: validate_pipeline succeeds exactly when the names are unique, every
\* depends_on entry names a task, and no task depends on itself, directly or
\* through others.
C10_ValidatorComplete ==
    vresult # "none" =>
        ((vresult = "Ok") <=>
            /\ UniqueNames(vpipeline.tasks)
            /\ DepsExist(vpipeline.tasks)
            /\ Acyclic(vpipeline.tasks))

C10_Witness ==
    /\ vresult = "Ok"
    /\ Len(vpipeline.tasks) = 3
    /\ \E n \in TaskNames(vpipeline.tasks) :
          Cardinality(TransDeps(vpipeline.tasks, n)) = 2

(***************************************************************************)
(* Artifacts, shutdown and the end-of-run report (Spec).                   *)
(***************************************************************************)
HasArtifacts(t) == {<<t, "log">>, <<t, "json">>} \subseteq artifacts

\* C11: when run_pipeline has returned, every task that was dispatched has
\* both its .log and its .json artifact in the run directory.
C11_ArtifactCoverage ==
    dpc = "done" => \A t \in Names : dispatched[t] > 0 => HasArtifacts(t)

\* C12: once shutdown has been requested no task runner is spawned any more.
C12_NoSpawnAfterShutdown ==
    [][shutdown => dispatched' = dispatched]_vars

\* C13: a runner that is in flight while shutdown is requested is not dropped:
\* it stays in flight until it returns, and what it returned is handled by the
\* driver (the completion is not discarded by the shutdown check).
C13_InFlightCompletes ==
    [][\A t \in Names :
         /\ (shutdown /\ t \in running) => rpc'[t] # "dropped"
         /\ (shutdown /\ dpc = "got" /\ res.task = t) => dpc' = "handle"]_vars

(***************************************************************************)
(* Retries and permits of a task runner (Spec).                            *)
(***************************************************************************)
\* C14: a runner never makes more than retries+1 backend invocations, and one
\* that returns the error made exactly retries+1, each of which failed.
C14_RetriesPlusOne ==
    \A t \in Names :
        /\ attempt[t] <= task_def(t).retries + 1
        /\ (rpc[t] = "returned" /\ returned[t].kind = "err")
              => attempt[t] = task_def(t).retries + 1

C14_Witness ==
    \E t \in Names :
        /\ task_def(t).retries = 1
        /\ rpc[t] = "returned"
        /\ returned[t].kind = "err"
        /\ attempt[t] = 2

\* C15: the backend invocation that yields (stdout, stderr, status) is the
\* runner's last: the runner returns that result at once, whatever the status
\* and the retries left, and makes no invocation afterwards.
C15_ResultNotRetried ==
    [][\A t \in Names :
         /\ run_result'[t] = "ok"
               => rpc'[t] = "returned" /\ returned'[t].kind = "ok"
         /\ run_result[t] = "ok" => attempt'[t] = attempt[t]]_vars

C15_Witness ==
    \E t \in Names :
        /\ task_def(t).retries = 1
        /\ attempt[t] = 1
        /\ run_result[t] = "ok"
        /\ returned[t].code # 0

\* C16: the free permits plus the runners holding one always make up the
\* configured concurrency, and every runner that has invoked the backend and
\* is still in flight holds a permit, across its retries too.
C16_PermitAccounting ==
    /\ permits + Cardinality(Holders) = pipeline.concurrency
    /\ \A t \in running : attempt[t] >= 1 => t \in Holders
    /\ \A t \in Names : rpc[t] = "acquire" => attempt[t] = 0

\* run_pipeline returned while a runner held a permit: the runner was dropped
\* and every permit is free again.
C16_Witness ==
    /\ dpc = "done"
    /\ permits = pipeline.concurrency
    /\ \E t \in Names : rpc[t] = "dropped" /\ attempt[t] >= 1

(***************************************************************************)
(* The end-of-run report (Spec) and scheduling (SpecFair).                 *)
(***************************************************************************)
\* The runner of t ran its command and returned to the executor.
Executed(t) == rpc[t] = "returned" /\ attempt[t] >= 1

\* C17: under stop_on_fail=false, when the run has completed the ordered
\* results hold an entry for every task that was dispatched and executed,
\* those whose runner returned a run-level error included.
C17_ReportCoversExecuted ==
    (dpc = "done" /\ rc = "Ok" /\ ~shutdown /\ ~pipeline.stop_on_fail)
        => \A t \in Names : Executed(t) => Processed(t)

Pos(seq, x) == CHOOSE i \in 1..Len(seq) : seq[i] = x

\* C18: the entries of the ordered results are in the order in which the
\* driver loop observed the completions, and the entry of a task follows the
\* entries of all its dependencies.
C18_CompletionOrder ==
    /\ \A i \in 1..Len(ordered_results) :
          ordered_results[i].task \in Range(observed)
    /\ \A i, j \in 1..Len(ordered_results) :
          i < j => Pos(observed, ordered_results[i].task)
                      < Pos(observed, ordered_results[j].task)
    /\ \A i \in 1..Len(ordered_results) :
          \A d \in Deps(ordered_results[i].task) :
              \E k \in 1..(i - 1) : ordered_results[k].task = d

\* c, declared last, completed first and is reported first.
C18_Witness ==
    /\ pipeline.name = "fan"
    /\ Len(ordered_results) = 3
    /\ ordered_results[1].task = "c"
    /\ ordered_results[3].task = "b"

\* C19: without abort or shutdown, a dispatched task eventually acquires a
\* permit and runs its command.
C19_NoStarvation ==
    \A t \in TaskIds :
        (t \in Names /\ dispatched[t] > 0)
            ~> \/ t \in Names /\ Started(t)
               \/ shutdown
               \/ rc \in {"PipelineAborted", "IoError"}

(***************************************************************************)
(* Properties of Backend::run (SpecBackend).                               *)
(***************************************************************************)
\* A child was spawned, it terminated within the deadline (if any) and the
\* wait for it succeeded.
TerminatedInTime ==
    /\ bbackend = "Docker" => bcanon
    /\ bchild.spawn_ok
    /\ bchild.wait_ok
    /\ ~elapsed(btimeout, bchild.time)

\* C20: in each backend, with or without a timeout, a child that terminates
\* within the deadline makes run return Ok with the child's exit status, zero
\* or not; the result depends on the child only, so the four backends agree.
C20_StatusPropagates ==
    (bpc = "done" /\ TerminatedInTime)
        => /\ bresult.kind = "ok"
           /\ bresult.code = bchild.code

C20_Witness ==
    /\ bpc = "done"
    /\ TerminatedInTime
    /\ bbackend = "Kubernetes"
    /\ btimeout # None
    /\ bchild.code = 2
    /\ bresult.kind = "ok"

\* A child was spawned and the deadline passed before it terminated.
DeadlinePassed ==
    /\ bbackend = "Docker" => bcanon
    /\ bchild.spawn_ok
    /\ btimeout # None
    /\ bchild.time > secs_of(btimeout)

Executing == {t \in Names : rpc[t] = "run"}

\* C22: the runners that hold a permit, those that can be executing a backend
\* command, are never more than the configured concurrency, however many
\* runners have been spawned into the in-flight set.
C22_ExecutingWithinCap ==
    /\ Cardinality(Executing) <= pipeline.concurrency
    /\ Executing \subseteq running

\* the only permit is held by c while a, spawned with it, waits for one
C22_Witness ==
    /\ pipeline.name = "fan"
    /\ Executing = {"c"}
    /\ Cardinality(Executing) = pipeline.concurrency
    /\ "a" \in running /\ rpc["a"] = "acquire"

\* The driver ran the release loop for the completion of d.
Released(d) ==
    Processed(d) /\ ~(pipeline.stop_on_fail /\ returned[d].code # 0)
\* The entries of depends_on of t whose task has not been released.
PendingEdges(t) ==
    LET deps == task_def(t).depends_on
    IN  Len(SelectSeq(deps, LAMBDA d : ~Released(d)))

\* C23: the indegree of a task starts at the number of entries of its
\* depends_on and is always the number of those entries whose task has not
\* been released; it never increases; a task with a positive counter has not
\* been dispatched; and a task that is not a root is dispatched exactly in the
\* step that takes its counter to 0, the completed task's edges to it being
\* decremented one by one, so that the last decrement is from 1 to 0.
C23_IndegreeAccounting ==
    /\ [](\A t \in Names :
            /\ current_indegree[t] = PendingEdges(t)
            /\ current_indegree[t] <= Len(task_def(t).depends_on)
            /\ current_indegree[t] > 0 => dispatched[t] = 0)
    /\ [][\A t \in Names :
            /\ current_indegree'[t] <= current_indegree[t]
            /\ current_indegree'[t] # current_indegree[t] =>
                  /\ dpc = "handle"
                  /\ current_indegree[t] - current_indegree'[t]
                        = Count(task_def(t).depends_on, res.task)
            /\ dispatched'[t] # dispatched[t] <=>
                  (current_indegree[t] >= 1 /\ current_indegree'[t] = 0)
            /\ dispatched'[t] \in {dispatched[t], dispatched[t] + 1}]_vars

\* b, which names a twice, went from 2 to 0 and was dispatched once
C23_Witness ==
    /\ pipeline.name = "fan"
    /\ Len(task_def("b").depends_on) = 2
    /\ Released("a")
    /\ current_indegree["b"] = 0
    /\ dispatched["b"] = 1

\* C24: the outputs map has an entry for T exactly when T's runner returned a
\* result, with any exit code, that the driver processed, and the entry is
\* that result's stdout; an entry is never overwritten nor removed, a step
\* adds at most the entry of the completion being handled, and the steps of
\* the task runners leave the map alone.
C24_OutputsSingleWriter ==
    /\ [](\A t \in Names :
            /\ t \in DOMAIN outputs <=> Processed(t)
            /\ t \in DOMAIN outputs =>
                  /\ returned[t].kind = "ok"
                  /\ outputs[t] = returned[t].stdout)
    /\ [][/\ \A t \in DOMAIN outputs :
                t \in DOMAIN outputs' /\ outputs'[t] = outputs[t]
          /\ outputs' # outputs =>
                /\ dpc = "handle"
                /\ res.kind = "ok"
                /\ DOMAIN outputs' = DOMAIN outputs \cup {res.task}
                /\ res.task \notin DOMAIN outputs]_vars

\* the output of a task that exited with a non-zero status is in the map
C24_Witness ==
    \E t \in DOMAIN outputs :
        /\ returned[t].code # 0
        /\ Cardinality(DOMAIN outputs) >= 2

\* C25: when the driver handles a result and one of the task's two artifacts
\* cannot be written, run_pipeline returns the IoError in that very step,
\* with stop_on_fail or without: the stdout is not inserted, the ordered
\* results get no entry and nothing is dispatched, then or later.
C25_IoErrorIsFatal ==
    [][/\ (dpc = "handle" /\ dpc' # "handle" /\ res.kind = "ok"
              /\ ~HasArtifacts(res.task)')
          => /\ rc' = "IoError"
             /\ dpc' = "done"
             /\ outputs' = outputs
             /\ ordered_results' = ordered_results
             /\ dispatched' = dispatched
             /\ running' = {}
       /\ rc = "IoError" =>
             /\ dpc' = "done"
             /\ dispatched' = dispatched
             /\ outputs' = outputs
             /\ ordered_results' = ordered_results]_vars

\* stop_on_fail=false, the .json of a could not be written, b was waiting
C25_Witness ==
    /\ rc = "IoError"
    /\ ~pipeline.stop_on_fail
    /\ <<res.task, "log">> \in artifacts
    /\ <<res.task, "json">> \notin artifacts
    /\ res.task \notin DOMAIN outputs
    /\ ~Processed(res.task)
    /\ \E d \in Dependents(res.task) : dispatched[d] = 0

(***************************************************************************)
(* Termination and complete runs (SpecFair, Spec).                         *)
(***************************************************************************)
\* C26: if every backend invocation terminates, run_pipeline returns, for
\* every concurrency the parser accepts.
C26_Terminates == <>(dpc = "done")

\* A run with none of: a runner error, an abort, a failed artifact write, a
\* shutdown request.
CleanRun ==
    /\ pipeline.concurrency >= 1
    /\ rc = "Ok"
    /\ ~shutdown
    /\ \A t \in Names : returned[t].kind # "err"

\* C27: when a clean run of a pipeline with concurrency at least 1 has
\* returned, every task was dispatched exactly once and has its entry in the
\* outputs map and in the ordered results.
C27_CleanRunCoversAll ==
    (dpc = "done" /\ CleanRun) =>
        \A t \in Names :
            /\ dispatched[t] = 1
            /\ t \in DOMAIN outputs
            /\ Cardinality({i \in 1..Len(ordered_results) :
                               ordered_results[i].task = t}) = 1

\* the diamond ran to its end although b exited with a non-zero status
C27_Witness ==
    /\ dpc = "done"
    /\ CleanRun
    /\ pipeline.name = "diamond"
    /\ returned["b"].code # 0
    /\ Len(ordered_results) = 4

(***************************************************************************)
(* What a command depends on (Spec, SpecInterp).                           *)
(***************************************************************************)
\* The stdout of the transitive dependencies of t, as a map.
DepsStdout(t) == [d \in Deps(t) |-> returned[d].stdout]

\* C28: the command of a task is a function of the pipeline and of the stdout
\* of its transitive dependencies: it is the interpolation of its template
\* with these outputs, whatever else has completed when its runner starts.
C28_CommandFromDepsOnly ==
    \A t \in Names : Started(t) =>
        \E order \in Orders(Deps(t)) :
            cmd[t] = interpolate_command(task_def(t).run, DepsStdout(t),
                                         EmptyMap, order, <<>>)

\* C29: the result of interpolate_command is the same for every order in
\* which the entries of outputs and of vars are iterated.
C29_OrderIndependent ==
    iresult.done =>
        \A oorder \in Orders(DOMAIN ioutputs), vorder \in Orders(DOMAIN ivars) :
            interpolate_command(itemplate, ioutputs, ivars, oorder, vorder)
                = iresult.value

=============================================================================
